---- MODULE Spec2Model ----
(***************************************************************************)
(* FinExtract: the batch orchestrator of the App component, the extraction *)
(* client (extractFinancialData, transformRawApiResponse) and the CSV      *)
(* serializers (convertToWideCSV, convertToLongCSV).                       *)
(*                                                                         *)
(* Conventions.                                                            *)
(*  - A JavaScript value is a record tagged by its type in field t.        *)
(*  - A string is a sequence of characters; a run of characters that holds *)
(*    no comma, double quote or newline may be written as one element.     *)
(*  - An awaited continuation (a microtask) runs before any other event:   *)
(*    while AwaitReady holds for a batch, only AwaitAll is enabled.        *)
(*  - processingMessage and the timer that updates it are display only and *)
(*    read by no handler; they are left out.                               *)
(***************************************************************************)
EXTENDS Integers, Sequences, FiniteSets, TLC

VARIABLES
  status,            \* AppStatus
  results,           \* ExtractionResult[]
  error,             \* string | null
  queue,             \* FileState[]
  isKeyConfigured,   \* boolean
  batches,           \* the invocations of handleFileUpload in flight, in start order
  uploaded,          \* how many PDF files have been accepted so far
  response,          \* serializer pipeline: the model's response text
  extracted,         \* serializer pipeline: outcome of extractFinancialData
  exported           \* serializer pipeline: outcome of the last export

appVars == <<status, results, error, queue, isKeyConfigured, batches, uploaded>>
pipeVars == <<response, extracted, exported>>
vars == <<status, results, error, queue, isKeyConfigured, batches, uploaded,
          response, extracted, exported>>

----------------------------------------------------------------------------
(* Bounds of the model *)

MaxFiles == 2      \* files of one selection
MaxUploaded == 3   \* PDF files accepted over a run
MaxYears == 2      \* entries of years in a response
MaxItems == 2      \* entries of line_items in a response
MaxYearly == 2     \* entries of yearly_values of a line item

----------------------------------------------------------------------------
(* JavaScript values *)

Undefined == [t |-> "undefined"]
JNull == [t |-> "null"]
JNum(n) == [t |-> "number", v |-> n]
JStr(s) == [t |-> "string", v |-> s]
JArr(a) == [t |-> "array", v |-> a]
JObj(f) == [t |-> "object", v |-> f]

IsNullish(x) == x.t \in {"undefined", "null"}

Truthy(x) ==
  CASE x.t \in {"undefined", "null"} -> FALSE
    [] x.t = "number" -> x.v # 0
    [] x.t = "string" -> Len(x.v) # 0
    [] OTHER -> TRUE

\* a || b
OrElse(a, b) == IF Truthy(a) THEN a ELSE b

\* o.k for a non-nullish o (own properties of plain data only)
Get(o, k) == IF o.t = "object" /\ k \in DOMAIN o.v THEN o.v[k] ELSE Undefined

Ok(x) == [ok |-> TRUE, val |-> x, err |-> <<>>]
Throw(msg) == [ok |-> FALSE, val |-> Undefined, err |-> msg]
TypeError == <<"TypeError">>

\* s.includes(p)
Includes(s, p) ==
  \E i \in 0..(Len(s) - Len(p)) : SubSeq(s, i + 1, i + Len(p)) = p

RECURSIVE DigitsOf(_)
DigitsOf(n) ==
  LET d == <<"0", "1", "2", "3", "4", "5", "6", "7", "8", "9">>
  IN IF n < 10 THEN <<d[n + 1]>> ELSE DigitsOf(n \div 10) \o <<d[(n % 10) + 1]>>

\* Number.prototype.toString for an integer
NumberToString(n) == IF n < 0 THEN <<"-">> \o DigitsOf(-n) ELSE DigitsOf(n)

\* x.toString() : throws on null and undefined
ToStringOf(x) ==
  CASE x.t = "string" -> Ok(x.v)
    [] x.t = "number" -> Ok(NumberToString(x.v))
    [] x.t \in {"undefined", "null"} -> Throw(TypeError)
    [] OTHER -> Ok(<<"[object Object]">>)

\* the property key a value is converted to in acc[k] and values[k]
ToPropertyKey(x) ==
  CASE x.t = "string" -> x.v
    [] x.t = "number" -> NumberToString(x.v)
    [] x.t = "undefined" -> <<"undefined">>
    [] x.t = "null" -> <<"null">>
    [] OTHER -> <<"[object Object]">>

----------------------------------------------------------------------------
(* Extraction client: services/geminiService.ts *)

EmptyObject == [k \in {} |-> Undefined]

\* mutant: a key that is already set keeps its value
AssignIfAbsent(acc, k, x) ==
  [kk \in (DOMAIN acc) \cup {k} |-> IF kk \in DOMAIN acc THEN acc[kk] ELSE x]

\* acc[k] = x
Assign(acc, k, x) == [kk \in (DOMAIN acc) \cup {k} |-> IF kk = k THEN x ELSE acc[kk]]

\* (item.yearly_values || []).reduce((acc, v) => { acc[v.year] = v.value; return acc }, {})
RECURSIVE ReduceYearlyValues(_, _)
ReduceYearlyValues(yv, acc) ==
  IF yv = <<>> THEN Ok(acc)
  ELSE IF IsNullish(Head(yv)) THEN Throw(TypeError)
  ELSE ReduceYearlyValues(Tail(yv),
         Assign(acc, ToPropertyKey(Get(Head(yv), "year")), Get(Head(yv), "value")))

\* the callback of raw.line_items.map
TransformLineItem(item) ==
  IF IsNullish(item) THEN Throw(TypeError)
  ELSE LET yv == OrElse(Get(item, "yearly_values"), JArr(<<>>))
       IN IF yv.t # "array" THEN Throw(TypeError)
          ELSE LET vals == ReduceYearlyValues(yv.v, EmptyObject)
               IN IF ~vals.ok THEN vals
                  ELSE Ok([name |-> Get(item, "name"),
                           standardized_name |-> Get(item, "standardized_name"),
                           values |-> vals.val])

RECURSIVE MapLineItems(_)
MapLineItems(items) ==
  IF items = <<>> THEN Ok(<<>>)
  ELSE LET h == TransformLineItem(Head(items))
       IN IF ~h.ok THEN h
          ELSE LET r == MapLineItems(Tail(items))
               IN IF ~r.ok THEN r ELSE Ok(<<h.val>> \o r.val)

UnknownEntity == JStr(<<"Unknown Entity">>)
NotFound == JStr(<<"Not Found">>)

transformRawApiResponse(raw) ==
  IF IsNullish(raw) THEN Throw(TypeError)
  ELSE LET li == OrElse(Get(raw, "line_items"), JArr(<<>>))
       IN IF li.t # "array" THEN Throw(TypeError)
          ELSE LET lineItems == MapLineItems(li.v)
               IN IF ~lineItems.ok THEN lineItems
                  ELSE Ok([company_name |-> OrElse(Get(raw, "company_name"), UnknownEntity),
                           currency |-> OrElse(Get(raw, "currency"), JNull),
                           units |-> OrElse(Get(raw, "units"), JNull),
                           years |-> OrElse(Get(raw, "years"), JArr(<<>>)),
                           line_items |-> lineItems.val,
                           missing_line_items |->
                             OrElse(Get(raw, "missing_line_items"), JArr(<<>>)),
                           completeness |-> OrElse(Get(raw, "completeness"), NotFound)])

\* response.text: empty, text that is no JSON, or the text of a JSON value
EmptyText == [kind |-> "empty", value |-> Undefined]
GarbageText == [kind |-> "garbage", value |-> Undefined]
JsonText(v) == [kind |-> "json", value |-> v]

JSONparse(text) == IF text.kind = "json" THEN Ok(text.value) ELSE Throw(<<"SyntaxError">>)

\* what ai.models.generateContent settles with
Rejection(msg) == [rejected |-> TRUE, message |-> msg, text |-> EmptyText]
Reply(text) == [rejected |-> FALSE, message |-> <<>>, text |-> text]

EmptyResponseMsg == <<"The extraction engine returned an empty response.">>
UnrecognizableMsg ==
  <<"The document was processed, but the data structure was unrecognizable.">>

\* mutant: a response that cannot be parsed or transformed yields an empty dataset
extractFinancialDataLenient(outcome) ==
  IF outcome.rejected THEN Throw(outcome.message)
  ELSE IF outcome.text.kind = "empty" THEN Throw(EmptyResponseMsg)
  ELSE LET data == JSONparse(outcome.text)
           out == IF data.ok THEN transformRawApiResponse(data.val) ELSE data
       IN IF out.ok THEN out ELSE transformRawApiResponse(JObj(EmptyObject))

\* extractFinancialData, given what generateContent settles with
extractFinancialData(outcome) ==
  IF outcome.rejected THEN Throw(outcome.message)
  ELSE IF outcome.text.kind = "empty" THEN Throw(EmptyResponseMsg)
  ELSE LET data == JSONparse(outcome.text)
           out == IF data.ok THEN transformRawApiResponse(data.val) ELSE data
       IN IF out.ok THEN out ELSE Throw(UnrecognizableMsg)

\* EXTRACTION_CONFIG.RESPONSE_SCHEMA: the values it admits
IsString(x) == x.t = "string"
IsArrayOf(x, P(_)) == x.t = "array" /\ \A k \in 1..Len(x.v) : P(x.v[k])
HasAll(x, required) == x.t = "object" /\ required \subseteq DOMAIN x.v
NullableString(x) == x.t \in {"string", "null", "undefined"}

YearlyValueSchema(x) ==
  /\ HasAll(x, {"year", "value"})
  /\ IsString(x.v["year"])
  /\ x.v["value"].t \in {"number", "null"}

LineItemSchema(x) ==
  /\ HasAll(x, {"name", "standardized_name", "yearly_values"})
  /\ IsString(x.v["name"])
  /\ IsString(x.v["standardized_name"])
  /\ IsArrayOf(x.v["yearly_values"], YearlyValueSchema)

CompletenessEnum == {<<"Complete">>, <<"Partial">>, <<"Not Found">>}

ResponseSchema(x) ==
  /\ HasAll(x, {"company_name", "years", "line_items", "missing_line_items",
                "completeness"})
  /\ IsString(x.v["company_name"])
  /\ NullableString(Get(x, "currency"))
  /\ NullableString(Get(x, "units"))
  /\ IsArrayOf(x.v["years"], IsString)
  /\ IsArrayOf(x.v["line_items"], LineItemSchema)
  /\ IsArrayOf(x.v["missing_line_items"], IsString)
  /\ IsString(x.v["completeness"])
  /\ x.v["completeness"].v \in CompletenessEnum

----------------------------------------------------------------------------
(* CSV serializers: utils/csvUtils.ts *)

COMMA == ","
QUOTE == "\""
NEWLINE == "\n"

\* s.replace(/,/g, '')
RemoveCommas(s) == SelectSeq(s, LAMBDA c : c # COMMA)

\* mutant: the double quotes of a cell are not doubled
KeepQuotes(s) == s

RECURSIVE DoubleQuotes(_)
\* s.replace(/"/g, '""')
DoubleQuotes(s) ==
  IF s = <<>> THEN <<>>
  ELSE (IF Head(s) = QUOTE THEN <<QUOTE, QUOTE>> ELSE <<Head(s)>>) \o DoubleQuotes(Tail(s))

\* mutant: a newline does not make a cell quoted
NeedsQuotingNoNewline(cellStr) ==
  \/ Includes(cellStr, <<COMMA>>)
  \/ Includes(cellStr, <<QUOTE>>)

\* cellStr.includes(',') || cellStr.includes('"') || cellStr.includes('\n')
NeedsQuoting(cellStr) ==
  \/ Includes(cellStr, <<COMMA>>)
  \/ Includes(cellStr, <<QUOTE>>)
  \/ Includes(cellStr, <<NEWLINE>>)

\* the callback of row.map, given cell.toString()
EscapeCell(cellStr) ==
  IF NeedsQuoting(cellStr) THEN <<QUOTE>> \o DoubleQuotes(cellStr) \o <<QUOTE>> ELSE cellStr

RECURSIVE Join(_, _)
\* strs.join(sep)
Join(strs, sep) ==
  IF strs = <<>> THEN <<>>
  ELSE IF Len(strs) = 1 THEN strs[1]
  ELSE strs[1] \o sep \o Join(Tail(strs), sep)

\* [headers, ...rows].map(row => row.map(cell => ...).join(",")).join("\n");
\* the cells are JavaScript values and cell.toString() throws on null and undefined
SerializeRows(table) ==
  IF \E r \in 1..Len(table) : \E c \in 1..Len(table[r]) : IsNullish(table[r][c])
  THEN Throw(TypeError)
  ELSE Ok(Join([r \in 1..Len(table) |->
                 Join([c \in 1..Len(table[r]) |-> EscapeCell(ToStringOf(table[r][c]).val)],
                      <<COMMA>>)],
               <<NEWLINE>>))

\* item.values[year]
ValueOf(item, year) ==
  IF ToPropertyKey(year) \in DOMAIN item.values
  THEN item.values[ToPropertyKey(year)]
  ELSE Undefined

\* mutant: a missing value is written as 0
ZeroForMissing(val) ==
  IF IsNullish(val) THEN JStr(<<"0">>) ELSE JStr(RemoveCommas(ToStringOf(val).val))

\* (val === null || val === undefined) ? "" : val.toString().replace(/,/g, '')
DisplayValue(val) ==
  IF IsNullish(val) THEN JStr(<<>>) ELSE JStr(RemoveCommas(ToStringOf(val).val))

WideHeaders == <<JStr(<<"Line Item (Original)">>), JStr(<<"Standardized Name">>)>>

convertToWideCSV(data) ==
  IF Len(data.line_items) = 0 THEN Ok(<<>>)
  ELSE IF data.years.t # "array" THEN Throw(TypeError)
  ELSE LET years == data.years.v
           headers == WideHeaders \o years
           rows == [k \in 1..Len(data.line_items) |->
                     <<data.line_items[k].name, data.line_items[k].standardized_name>>
                       \o [y \in 1..Len(years) |->
                            DisplayValue(ValueOf(data.line_items[k], years[y]))]]
       IN SerializeRows(<<headers>> \o rows)

LongHeaders ==
  <<JStr(<<"Source / Company">>), JStr(<<"Line Item (Original)">>),
    JStr(<<"Standardized Name">>), JStr(<<"Period">>), JStr(<<"Value">>)>>

\* the rows pushed for one line item of one dataset
LongRowsOfItem(data, item) ==
  [y \in 1..Len(data.years.v) |->
    <<data.company_name, item.name, item.standardized_name, data.years.v[y],
      DisplayValue(ValueOf(item, data.years.v[y]))>>]

RECURSIVE LongRowsOfItems(_, _)
LongRowsOfItems(data, items) ==
  IF items = <<>> THEN <<>>
  ELSE LongRowsOfItem(data, Head(items)) \o LongRowsOfItems(data, Tail(items))

\* mutant: only the first dataset is written
LongRowsFirstOnly(dataList) ==
  IF dataList = <<>> THEN <<>>
  ELSE LongRowsOfItems(Head(dataList), Head(dataList).line_items)

RECURSIVE LongRows(_)
LongRows(dataList) ==
  IF dataList = <<>> THEN <<>>
  ELSE LongRowsOfItems(Head(dataList), Head(dataList).line_items) \o LongRows(Tail(dataList))

convertToLongCSV(dataList) ==
  IF Len(dataList) = 0 THEN Ok(<<>>)
  ELSE IF \E d \in 1..Len(dataList) :
            Len(dataList[d].line_items) > 0 /\ dataList[d].years.t # "array"
  THEN Throw(TypeError)
  ELSE SerializeRows(<<LongHeaders>> \o LongRows(dataList))

----------------------------------------------------------------------------
(* Batch orchestrator: the App component *)

NULL == "null"

AuthFailedMsg == "Authentication failed. Please re-configure your API key."
SelectPdfMsg == "Please select one or more PDF documents."
NotProcessedMsg == "The documents could not be processed."

\* mutant: only the first pattern is looked for
IsAuthErrorFirstOnly(errorMsg) == Includes(errorMsg, <<"API key not valid">>)

IsAuthError(errorMsg) ==
  \/ Includes(errorMsg, <<"API key not valid">>)
  \/ Includes(errorMsg, <<"Requested entity was not found">>)

FileNames == {"a.pdf", "b.pdf"}
FileTypes == {"application/pdf", "text/plain"}
Files == [name : FileNames, type : FileTypes]

\* event.target.files
FileSelections == UNION {[1..n -> Files] : n \in 0..MaxFiles}

RawSample(company, value) ==
  JObj([company_name |-> JStr(<<company>>),
        years |-> JArr(<<JStr(<<"2024">>)>>),
        line_items |-> JArr(<<
          JObj([name |-> JStr(<<"Sales">>),
                standardized_name |-> JStr(<<"Revenue">>),
                yearly_values |-> JArr(<<
                  JObj([year |-> JStr(<<"2024">>), value |-> value])>>)])>>),
        missing_line_items |-> JArr(<<>>),
        completeness |-> JStr(<<"Complete">>)])

\* what generateContent may settle with, for one file
ApiOutcomes ==
  {Rejection(<<"API key not valid", ". Please pass a valid API key.">>),
   Rejection(<<"Requested entity was not found", ".">>),
   Rejection(<<"Failed to fetch">>),
   Rejection(<<>>),
   Reply(EmptyText),
   Reply(GarbageText),
   Reply(JsonText(RawSample("Acme", JNum(7)))),
   Reply(JsonText(JObj(EmptyObject)))}

\* prev.map(f => f.name === name ? { ...f, status: st } : f)
SetQueueStatus(q, name, st) ==
  [k \in 1..Len(q) |-> IF q[k].name = name THEN [q[k] EXCEPT !.status = st] ELSE q[k]]

\* one call of processSingleFile: where it stands (pc), which callback resolved its
\* promise (via), how often it called extractFinancialData (calls), whether its catch
\* block found an API key error (auth), and what the promise resolved with
\* (settled: <<>> is null)
NewTask == [pc |-> "reading", via |-> "none", calls |-> 0, auth |-> FALSE, settled |-> <<>>]

\* mutant: the handler goes on as soon as one promise has settled
AnySettled(b) == \E i \in 1..Len(batches[b].tasks) : batches[b].tasks[i].pc = "resolved"

\* Promise.all(extractionPromises) has settled
AllSettled(b) == \A i \in 1..Len(batches[b].tasks) : batches[b].tasks[i].pc = "resolved"

\* the continuation after await Promise.all is ready to run
AwaitReady(b) == AllSettled(b)

\* no microtask is pending: an event (user, reader, network) can be handled
EventLoopIdle == \A b \in 1..Len(batches) : ~AwaitReady(b)

DropZoneShown == isKeyConfigured /\ status = "IDLE" /\ results = <<>>
AddMoreShown == isKeyConfigured /\ results # <<>>
ResetShown == isKeyConfigured /\ results # <<>>

AppInit ==
  /\ status = "IDLE"
  /\ results = <<>>
  /\ error = NULL
  /\ queue = <<>>
  /\ isKeyConfigured \in BOOLEAN
  /\ batches = <<>>
  /\ uploaded = 0

\* hasAistudio: window.aistudio.openSelectKey is a function
handleSelectKey(hasAistudio) ==
  /\ EventLoopIdle
  /\ ~isKeyConfigured
  /\ isKeyConfigured' = IF hasAistudio THEN TRUE ELSE isKeyConfigured
  /\ UNCHANGED <<status, results, error, queue, batches, uploaded, pipeVars>>

\* mutant: every selected file is taken
AnyFile(f) == TRUE

\* f.type === 'application/pdf'
IsPdf(f) == f.type = "application/pdf"

handleFileUpload(files) ==
  /\ EventLoopIdle
  /\ DropZoneShown \/ AddMoreShown
  /\ LET fileList == SelectSeq(files, IsPdf)
     IN IF Len(files) = 0
        THEN UNCHANGED vars
        ELSE IF Len(fileList) = 0
        THEN /\ error' = SelectPdfMsg
             /\ UNCHANGED <<status, results, queue, isKeyConfigured,
                            batches, uploaded, pipeVars>>
        ELSE /\ uploaded + Len(fileList) <= MaxUploaded
             /\ uploaded' = uploaded + Len(fileList)
             /\ status' = "PROCESSING"
             /\ error' = NULL
             /\ queue' = queue \o [i \in 1..Len(fileList) |->
                                    [name |-> fileList[i].name, status |-> "uploading"]]
             /\ batches' = Append(batches,
                  [files |-> [i \in 1..Len(fileList) |-> fileList[i].name],
                   tasks |-> [i \in 1..Len(fileList) |-> NewTask],
                   closureError |-> error])
             /\ UNCHANGED <<results, isKeyConfigured, pipeVars>>

\* mutant: a file is read only once the file before it has settled
ReaderOnloadSequential(b, i) ==
  /\ EventLoopIdle
  /\ batches[b].tasks[i].pc = "reading"
  /\ i > 1 => batches[b].tasks[i - 1].pc = "resolved"
  /\ queue' = SetQueueStatus(queue, batches[b].files[i], "processing")
  /\ batches' = [batches EXCEPT ![b].tasks[i].pc = "extracting",
                                ![b].tasks[i].calls = @ + 1]
  /\ UNCHANGED <<status, results, error, isKeyConfigured,
                 uploaded, pipeVars>>

\* reader.onload up to the await of extractFinancialData
ReaderOnload(b, i) ==
  /\ EventLoopIdle
  /\ batches[b].tasks[i].pc = "reading"
  /\ queue' = SetQueueStatus(queue, batches[b].files[i], "processing")
  /\ batches' = [batches EXCEPT ![b].tasks[i].pc = "extracting",
                                ![b].tasks[i].calls = @ + 1]
  /\ UNCHANGED <<status, results, error, isKeyConfigured,
                 uploaded, pipeVars>>

ReaderOnerror(b, i) ==
  /\ EventLoopIdle
  /\ batches[b].tasks[i].pc = "reading"
  /\ queue' = SetQueueStatus(queue, batches[b].files[i], "error")
  /\ batches' = [batches EXCEPT ![b].tasks[i].pc = "resolved",
                                ![b].tasks[i].via = "onerror"]
  /\ UNCHANGED <<status, results, error, isKeyConfigured,
                 uploaded, pipeVars>>

\* reader.onload after the await: extractFinancialData returned
ExtractReturns(b, i, outcome) ==
  /\ EventLoopIdle
  /\ batches[b].tasks[i].pc = "extracting"
  /\ extractFinancialData(outcome).ok
  /\ queue' = SetQueueStatus(queue, batches[b].files[i], "done")
  /\ batches' = [batches EXCEPT
       ![b].tasks[i].pc = "resolved",
       ![b].tasks[i].via = "try",
       ![b].tasks[i].settled =
          <<[fileName |-> batches[b].files[i], data |-> extractFinancialData(outcome).val]>>]
  /\ UNCHANGED <<status, results, error, isKeyConfigured,
                 uploaded, pipeVars>>

\* mutant: a failed extraction is tried once more
ExtractThrowsRetry(b, i, outcome) ==
  /\ EventLoopIdle
  /\ batches[b].tasks[i].pc = "extracting"
  /\ ~extractFinancialData(outcome).ok
  /\ IF batches[b].tasks[i].calls < 2
     THEN /\ batches' = [batches EXCEPT ![b].tasks[i].calls = @ + 1]
          /\ UNCHANGED <<isKeyConfigured, error, queue>>
     ELSE /\ IF IsAuthError(extractFinancialData(outcome).err)
             THEN isKeyConfigured' = FALSE /\ error' = AuthFailedMsg
             ELSE UNCHANGED <<isKeyConfigured, error>>
          /\ queue' = SetQueueStatus(queue, batches[b].files[i], "error")
          /\ batches' = [batches EXCEPT ![b].tasks[i].pc = "resolved",
                                        ![b].tasks[i].via = "catch",
                                        ![b].tasks[i].auth =
                                           IsAuthError(extractFinancialData(outcome).err)]
  /\ UNCHANGED <<status, results, uploaded, pipeVars>>

\* reader.onload after the await: extractFinancialData threw (the catch block)
ExtractThrows(b, i, outcome) ==
  /\ EventLoopIdle
  /\ batches[b].tasks[i].pc = "extracting"
  /\ ~extractFinancialData(outcome).ok
  /\ IF IsAuthError(extractFinancialData(outcome).err)
     THEN isKeyConfigured' = FALSE /\ error' = AuthFailedMsg
     ELSE UNCHANGED <<isKeyConfigured, error>>
  /\ queue' = SetQueueStatus(queue, batches[b].files[i], "error")
  /\ batches' = [batches EXCEPT ![b].tasks[i].pc = "resolved",
                                ![b].tasks[i].via = "catch",
                                ![b].tasks[i].auth =
                                   IsAuthError(extractFinancialData(outcome).err)]
  /\ UNCHANGED <<status, results, uploaded, pipeVars>>

RECURSIVE ValidResults(_)
\* settledResults.filter(r => r !== null)
ValidResults(tasks) ==
  IF tasks = <<>> THEN <<>> ELSE Head(tasks).settled \o ValidResults(Tail(tasks))

\* mutant: the new results replace the earlier ones
ReplaceResults(prev, validResults) == validResults

\* prev => [...prev, ...validResults]
AppendResults(prev, validResults) == prev \o validResults

\* handleFileUpload after await Promise.all
AwaitAll(b) ==
  /\ AwaitReady(b)
  /\ LET validResults == ValidResults(batches[b].tasks)
     IN IF Len(validResults) > 0
        THEN /\ results' = AppendResults(results, validResults)
             /\ status' = "SUCCESS"
             /\ UNCHANGED error
        ELSE /\ status' = "ERROR"
             /\ error' = IF batches[b].closureError = NULL THEN NotProcessedMsg ELSE error
             /\ UNCHANGED results
  /\ batches' = SubSeq(batches, 1, b - 1) \o SubSeq(batches, b + 1, Len(batches))
  /\ UNCHANGED <<queue, isKeyConfigured, uploaded, pipeVars>>

handleClearAll ==
  /\ EventLoopIdle
  /\ ResetShown
  /\ status' = "IDLE"
  /\ results' = <<>>
  /\ error' = NULL
  /\ queue' = <<>>
  /\ UNCHANGED <<isKeyConfigured, batches, uploaded, pipeVars>>

handleRemoveItem(index) ==
  /\ EventLoopIdle
  /\ isKeyConfigured
  /\ index \in 1..Len(results)
  /\ LET next == SubSeq(results, 1, index - 1) \o SubSeq(results, index + 1, Len(results))
     IN /\ results' = next
        /\ status' = IF Len(next) = 0 THEN "IDLE" ELSE status
  /\ UNCHANGED <<error, queue, isKeyConfigured, batches,
                 uploaded, pipeVars>>

\* the close button of the error banner: setError(null)
DismissError ==
  /\ EventLoopIdle
  /\ isKeyConfigured
  /\ error # NULL
  /\ error' = NULL
  /\ UNCHANGED <<status, results, queue, isKeyConfigured, batches, uploaded, pipeVars>>

PipeIdle ==
  /\ response = Reply(EmptyText)
  /\ extracted = <<>>
  /\ exported = <<>>

Init ==
  /\ AppInit
  /\ PipeIdle

Next ==
  \/ \E hasAistudio \in BOOLEAN : handleSelectKey(hasAistudio)
  \/ \E files \in FileSelections : handleFileUpload(files)
  \/ \E b \in 1..Len(batches) : \E i \in 1..Len(batches[b].tasks) : ReaderOnload(b, i)
  \/ \E b \in 1..Len(batches) : \E i \in 1..Len(batches[b].tasks) : ReaderOnerror(b, i)
  \/ \E b \in 1..Len(batches) : \E i \in 1..Len(batches[b].tasks) :
       \E outcome \in ApiOutcomes : ExtractReturns(b, i, outcome)
  \/ \E b \in 1..Len(batches) : \E i \in 1..Len(batches[b].tasks) :
       \E outcome \in ApiOutcomes : ExtractThrows(b, i, outcome)
  \/ \E b \in 1..Len(batches) : AwaitAll(b)
  \/ handleClearAll
  \/ \E index \in 1..Len(results) : handleRemoveItem(index)
  \/ DismissError

Spec == Init /\ [][Next]_vars

----------------------------------------------------------------------------
(* The serializer pipeline: one response is extracted and exported *)

SeqsUpTo(S, n) == UNION {[1..k -> S] : k \in 0..n}

YearLabels == {<<"FY24">>, <<"Mar 31", COMMA, " 2023">>}
Values == {JNull, JNum(1250)}
ItemNames ==
  {[name |-> <<"Sales">>, std |-> <<"Revenue">>],
   [name |-> <<"Cost", COMMA, " ", QUOTE, "net", QUOTE, NEWLINE, "total">>,
    std |-> <<"Total Expenses">>]}

YearlyEntries == {JObj([year |-> JStr(y), value |-> v]) : y \in YearLabels, v \in Values}

RawItem(nm, yearly) ==
  JObj([name |-> JStr(nm.name), standardized_name |-> JStr(nm.std),
        yearly_values |-> JArr(yearly)])

RawItems == {RawItem(nm, yv) : nm \in ItemNames, yv \in SeqsUpTo(YearlyEntries, MaxYearly)}

RawResponse(years, items) ==
  JObj([company_name |-> JStr(<<"Acme", COMMA, " Inc.">>),
        currency |-> JStr(<<"USD">>),
        units |-> JNull,
        years |-> JArr(years),
        line_items |-> JArr(items),
        missing_line_items |-> JArr(<<>>),
        completeness |-> JStr(<<"Complete">>)])

\* obj without property k
Omit(obj, k) == JObj([f \in (DOMAIN obj.v) \ {k} |-> obj.v[f]])
\* obj with property k set to x
With(obj, k, x) == JObj([f \in (DOMAIN obj.v) \cup {k} |-> IF f = k THEN x ELSE obj.v[f]])

BaseItem ==
  RawItem([name |-> <<"Sales">>, std |-> <<"Revenue">>],
          <<JObj([year |-> JStr(<<"FY24">>), value |-> JNum(1250)])>>)
BaseResponse == RawResponse(<<JStr(<<"FY24">>)>>, <<BaseItem>>)

\* responses that conform to RESPONSE_SCHEMA
ConformingResponses ==
  {RawResponse(ys, its) : ys \in SeqsUpTo({JStr(y) : y \in YearLabels}, MaxYears),
                          its \in SeqsUpTo(RawItems, MaxItems)}

\* responses that do not
DeviatingResponses ==
  {JNull,
   JObj(EmptyObject),
   Omit(BaseResponse, "line_items"),
   Omit(BaseResponse, "years"),
   Omit(BaseResponse, "completeness"),
   Omit(BaseResponse, "company_name"),
   With(BaseResponse, "completeness", JStr(<<"Mostly">>)),
   With(BaseResponse, "line_items", JStr(<<"none">>)),
   With(BaseResponse, "line_items", JArr(<<JNull>>)),
   With(BaseResponse, "line_items", JArr(<<Omit(BaseItem, "yearly_values")>>)),
   With(BaseResponse, "line_items", JArr(<<With(BaseItem, "yearly_values", JArr(<<JNull>>))>>)),
   With(BaseResponse, "line_items",
        JArr(<<With(BaseItem, "yearly_values",
                    JArr(<<JObj([year |-> JStr(<<"FY24">>)])>>))>>))}

Responses ==
  {Reply(JsonText(raw)) : raw \in ConformingResponses \cup DeviatingResponses}
    \cup {Reply(EmptyText), Reply(GarbageText), Rejection(<<"Failed to fetch">>)}

PipeInit ==
  /\ status = "IDLE"
  /\ results = <<>>
  /\ error = NULL
  /\ queue = <<>>
  /\ isKeyConfigured = TRUE
  /\ batches = <<>>
  /\ uploaded = 0
  /\ response \in Responses
  /\ extracted = <<>>
  /\ exported = <<>>

\* extractFinancialData settles
Extract ==
  /\ extracted = <<>>
  /\ extracted' = <<extractFinancialData(response)>>
  /\ UNCHANGED <<appVars, response, exported>>

\* handleExportSingle: the CSV handed to downloadCSV
ExportSingle ==
  /\ extracted # <<>>
  /\ extracted[1].ok
  /\ exported' = <<[kind |-> "wide", csv |-> convertToWideCSV(extracted[1].val)]>>
  /\ UNCHANGED <<appVars, response, extracted>>

\* handleExportConsolidated: the CSV handed to downloadCSV
ExportConsolidated ==
  /\ extracted # <<>>
  /\ extracted[1].ok
  /\ exported' = <<[kind |-> "long", csv |-> convertToLongCSV(<<extracted[1].val>>)]>>
  /\ UNCHANGED <<appVars, response, extracted>>

PipeNext == Extract \/ ExportSingle \/ ExportConsolidated

SpecPipe == PipeInit /\ [][PipeNext]_vars

----------------------------------------------------------------------------
(* The export handlers on the workboard: results holds finished extractions *)

MaxDatasets == 2   \* entries of results when the exports are exercised

ExportCompanies == {<<"Acme", COMMA, " Inc.">>, <<"Bolt">>}

\* line items; one has a name that holds only double quotes and a standardized name
\* that holds only a newline (a company name holds only a comma)
ExportItems ==
  {RawItem([name |-> <<"Sales">>, std |-> <<"Revenue">>],
           <<JObj([year |-> JStr(<<"FY24">>), value |-> JNum(1250)]),
             JObj([year |-> JStr(<<"Mar 31", COMMA, " 2023">>), value |-> JNull])>>),
   RawItem([name |-> <<QUOTE, "Other", QUOTE>>, std |-> <<"Other", NEWLINE, "Income">>],
           <<JObj([year |-> JStr(<<"FY24">>), value |-> JNum(-40)])>>)}

ExportResponses ==
  {With(RawResponse(ys, its), "company_name", JStr(c)) :
     c \in ExportCompanies,
     ys \in SeqsUpTo({JStr(y) : y \in YearLabels}, MaxYears),
     its \in SeqsUpTo(ExportItems, MaxItems)}

\* the FinancialData extractFinancialData returns for these responses
ExportData == {extractFinancialData(Reply(JsonText(raw))).val : raw \in ExportResponses}

\* results.map(r => r.data)
RECURSIVE DataOf(_)
DataOf(rs) == IF rs = <<>> THEN <<>> ELSE <<Head(rs).data>> \o DataOf(Tail(rs))

\* the workboard after uploads of a.pdf that left these results (or none)
ExportInit ==
  /\ \E ds \in SeqsUpTo(ExportData, MaxDatasets) :
       results = [k \in 1..Len(ds) |-> [fileName |-> "a.pdf", data |-> ds[k]]]
  /\ status = IF results = <<>> THEN "IDLE" ELSE "SUCCESS"
  /\ error = NULL
  /\ queue = [k \in 1..Len(results) |-> [name |-> results[k].fileName, status |-> "done"]]
  /\ isKeyConfigured = TRUE
  /\ batches = <<>>
  /\ uploaded = Len(results)
  /\ PipeIdle

\* handleExportConsolidated: the CSV handed to downloadCSV
handleExportConsolidated ==
  IF Len(results) = 0
  THEN UNCHANGED vars
  ELSE /\ exported' = <<[kind |-> "long", of |-> 0,
                         csv |-> convertToLongCSV(DataOf(results))]>>
       /\ UNCHANGED <<appVars, response, extracted>>

\* handleExportSingle(results[index]): the CSV handed to downloadCSV
handleExportSingle(index) ==
  /\ exported' = <<[kind |-> "wide", of |-> index,
                    csv |-> convertToWideCSV(results[index].data)]>>
  /\ UNCHANGED <<appVars, response, extracted>>

ExportNext ==
  \/ handleExportConsolidated
  \/ \E index \in 1..Len(results) : handleExportSingle(index)

SpecExport == ExportInit /\ [][ExportNext]_vars

----------------------------------------------------------------------------
(* Properties of the batch orchestrator *)

Statuses == {"uploading", "processing", "done", "error"}

Forward(s, t) ==
  \/ s = t
  \/ s = "uploading" /\ t \in {"processing", "error"}
  \/ s = "processing" /\ t \in {"done", "error"}

Without(seq, k) == SubSeq(seq, 1, k - 1) \o SubSeq(seq, k + 1, Len(seq))

TasksResolved(b) ==
  \A i \in 1..Len(batches[b].tasks) : batches[b].tasks[i].pc = "resolved"

\* the batch whose handler returns in this step, if any
Finishing(b) == TasksResolved(b) /\ batches' = Without(batches, b)

\* C1: every queue entry's status is one of uploading, processing, done, error, and
\* an entry only moves forward: uploading -> processing -> done or error, or
\* uploading -> error; an entry that is done or error never changes again.
C1_StatusForward ==
  [][/\ \A k \in 1..Len(queue') : queue'[k].status \in Statuses
     /\ \A k \in 1..Len(queue) :
          k <= Len(queue') => Forward(queue[k].status, queue'[k].status)]_vars

RECURSIVE SuccessesInFileOrder(_, _)
\* the results of the succeeded files of a batch, from file i on
SuccessesInFileOrder(b, i) ==
  IF i > Len(batches[b].files) THEN <<>>
  ELSE (IF batches[b].tasks[i].via = "try"
        THEN <<[fileName |-> batches[b].files[i],
                data |-> batches[b].tasks[i].settled[1].data]>>
        ELSE <<>>) \o SuccessesInFileOrder(b, i + 1)

\* C2: when a batch finishes and at least one of its files succeeded, status becomes
\* SUCCESS and results grows by exactly the succeeded files' results in file order,
\* the earlier results kept; when none succeeded, status becomes ERROR and results
\* is unchanged.
C2_Aggregation ==
  [][\A b \in 1..Len(batches) :
       Finishing(b) =>
         IF \E i \in 1..Len(batches[b].tasks) : batches[b].tasks[i].via = "try"
         THEN status' = "SUCCESS" /\ results' = results \o SuccessesInFileOrder(b, 1)
         ELSE status' = "ERROR" /\ results' = results]_vars

\* a batch with a failed file has ended after an earlier batch: the earlier result is
\* kept, the succeeded file's result follows it and the failed file added nothing
C2_Witness ==
  /\ batches = <<>>
  /\ status = "SUCCESS"
  /\ Len(queue) = 3
  /\ Len(results) = 2
  /\ results[1].fileName = queue[1].name
  /\ results[2].fileName # queue[1].name
  /\ \E k \in 2..3 : queue[k].status = "error"

\* C3: status becomes SUCCESS or ERROR only in a step in which a batch finishes, and
\* every file of that batch has then settled (done or error).
C3_WaitsForAll ==
  [][(status' \in {"SUCCESS", "ERROR"} /\ status' # status) =>
       \E b \in 1..Len(batches) : Finishing(b)]_vars

\* a batch of two files has ended
C3_Witness ==
  /\ batches = <<>>
  /\ status \in {"SUCCESS", "ERROR"}
  /\ Len(queue) = 2
  /\ queue[1].status = "done" /\ queue[2].status = "error"
  /\ queue[1].name # queue[2].name

\* C4 as stated: when all files of a batch have settled, one extraction call has been
\* made for each of them.
C4_OneCallPerFile ==
  \A b \in 1..Len(batches) :
    TasksResolved(b) => \A i \in 1..Len(batches[b].tasks) : batches[b].tasks[i].calls = 1

\* C4 amended: at most one extraction call is made for a file: none before and none
\* without its read succeeding, exactly one from then on, also after the extraction
\* failed (no retry).
C4_OneCallPerReadFile ==
  \A b \in 1..Len(batches) : \A i \in 1..Len(batches[b].tasks) :
    LET t == batches[b].tasks[i]
    IN /\ t.pc = "reading" => t.calls = 0
       /\ t.pc = "extracting" => t.calls = 1
       /\ t.pc = "resolved" => t.calls = (IF t.via = "onerror" THEN 0 ELSE 1)

\* all files of a batch have settled: one could not be read, the extraction of
\* another failed
C4_Witness ==
  \E b \in 1..Len(batches) :
    /\ TasksResolved(b)
    /\ \E i, j \in 1..Len(batches[b].tasks) :
         batches[b].tasks[i].via = "onerror" /\ batches[b].tasks[j].via = "catch"

NoContinuationPending == \A b \in 1..Len(batches) : ~TasksResolved(b)

\* C5: the files of a batch are processed independently: whatever the other files'
\* positions, a file being read can be loaded, and a file being extracted can
\* succeed and can fail.
C5_Parallel ==
  NoContinuationPending =>
    \A b \in 1..Len(batches) : \A i \in 1..Len(batches[b].tasks) :
      /\ batches[b].tasks[i].pc = "reading" =>
           ENABLED ReaderOnload(b, i) /\ ENABLED ReaderOnerror(b, i)
      /\ batches[b].tasks[i].pc = "extracting" =>
           /\ ENABLED ExtractReturns(b, i, Reply(JsonText(JObj(EmptyObject))))
           /\ ENABLED ExtractThrows(b, i, Rejection(<<"Failed to fetch">>))

\* both files of a batch are being extracted at the same time
C5_Witness ==
  \E b \in 1..Len(batches) :
    /\ Len(batches[b].tasks) = 2
    /\ \A i \in 1..2 : batches[b].tasks[i].pc = "extracting"
    /\ Len(queue) = 2
    /\ \A k \in 1..2 : queue[k].status = "processing"

AuthOutcomes ==
  {Rejection(<<"API key not valid", ". Please pass a valid API key.">>),
   Rejection(<<"Requested entity was not found", ".">>)}

C13_FinalStatusMeansSettled ==
  status \in {"SUCCESS", "ERROR"} =>
    \A k \in 1..Len(queue) : queue[k].status \notin {"uploading", "processing"}

\* C14: when a batch ends with no successful file, error is set in that step: to the
\* authentication message if an API key error was detected for a file of the batch,
\* to 'The documents could not be processed.' otherwise; it is never null and the
\* authentication message is never replaced by the generic one, whatever error was
\* displayed when the upload started.
C14_FailureMessage ==
  [][\A b \in 1..Len(batches) :
       (Finishing(b) /\ \A i \in 1..Len(batches[b].tasks) : batches[b].tasks[i].via # "try") =>
         error' = IF \E i \in 1..Len(batches[b].tasks) : batches[b].tasks[i].auth
                  THEN AuthFailedMsg
                  ELSE NotProcessedMsg]_vars

\* C15: from every reachable state in which no batch is in flight and the API key is
\* configured the user can start a new upload: the drop zone or Add More is shown, or
\* Reset Workboard is shown and brings the drop zone back.
C15_UploadAvailable ==
  (batches = <<>> /\ isKeyConfigured) =>
    \/ DropZoneShown
    \/ AddMoreShown
    \/ ResetShown /\ ENABLED handleClearAll

\* the workboard is empty
Cleared == status = "IDLE" /\ results = <<>> /\ queue = <<>> /\ error = NULL

\* C16: after Reset Workboard status is IDLE and results, queue and error are empty,
\* and they stay so until the user starts a new upload, also when a batch was in
\* flight at the reset: nothing of the files uploaded before the reset appears.
C16_ResetIsFinal ==
  [][/\ handleClearAll => Cleared'
     /\ (Cleared /\ ~(\E files \in FileSelections : handleFileUpload(files))) => Cleared']_vars

RECURSIVE PdfNames(_)
\* the names of the files of a selection whose type is application/pdf, in order
PdfNames(files) ==
  IF files = <<>> THEN <<>>
  ELSE (IF Head(files).type = "application/pdf" THEN <<Head(files).name>> ELSE <<>>)
         \o PdfNames(Tail(files))

NamesOf(q) == [k \in 1..Len(q) |-> q[k].name]

\* C19: an upload adds to the queue, and hands to processSingleFile, exactly the
\* selected files whose type is application/pdf; when a selection holds files but no
\* PDF, error becomes 'Please select one or more PDF documents.' and status, queue
\* and results are unchanged.
C19_OnlyPdf ==
  [][\A files \in FileSelections :
       handleFileUpload(files) =>
         /\ NamesOf(queue') = NamesOf(queue) \o PdfNames(files)
         /\ IF PdfNames(files) = <<>>
            THEN batches' = batches
            ELSE /\ Len(batches') = Len(batches) + 1
                 /\ batches'[Len(batches')].files = PdfNames(files)
                 /\ Len(batches'[Len(batches')].tasks) = Len(PdfNames(files))
         /\ (files # <<>> /\ PdfNames(files) = <<>>) =>
              /\ error' = SelectPdfMsg
              /\ status' = status /\ queue' = queue /\ results' = results]_vars

\* a selection without any PDF was made through Add More after a batch had
\* succeeded: the message is shown and the workboard is as the batch left it
C19_Witness ==
  /\ error = SelectPdfMsg
  /\ status = "SUCCESS"
  /\ Len(results) = 1 /\ Len(queue) = 1 /\ queue[1].status = "done"
  /\ batches = <<>>

----------------------------------------------------------------------------
(* Properties of the extraction client and of the serializers *)

Extracted == extracted # <<>>
ExtractedOk == extracted # <<>> /\ extracted[1].ok
IsJsonReply == ~response.rejected /\ response.text.kind = "json"
Raw == response.text.value
Data == extracted[1].val

\* C7: a response whose structure does not match the response schema is rejected:
\* extractFinancialData fails instead of returning a FinancialData.
C7_SchemaEnforced ==
  (Extracted /\ IsJsonReply /\ ~ResponseSchema(Raw)) => ~extracted[1].ok

RawItemsOf == Raw.v["line_items"].v
YearlyOf(k) == RawItemsOf[k].v["yearly_values"].v

\* the value of the last entry of yearly whose year is label
LastValueFor(yearly, label) ==
  LET at == {j \in 1..Len(yearly) : yearly[j].v["year"].v = label}
      last == CHOOSE j \in at : \A h \in at : h <= j
  IN yearly[last].v["value"]

SameValue(x, y) == x.t = y.t /\ (x.t = "number" => x.v = y.v)

\* C8: for a conforming response, the line items keep their name, standardized
\* name and order, the keys of values are exactly the year labels that occur in
\* yearly_values, and each is mapped to the value of the last entry with that
\* year, null staying null.
C8_YearKeyedValues ==
  (Extracted /\ IsJsonReply /\ ResponseSchema(Raw)) =>
    /\ extracted[1].ok
    /\ Len(Data.line_items) = Len(RawItemsOf)
    /\ \A k \in 1..Len(RawItemsOf) :
         /\ Data.line_items[k].name = RawItemsOf[k].v["name"]
         /\ Data.line_items[k].standardized_name = RawItemsOf[k].v["standardized_name"]
         /\ DOMAIN Data.line_items[k].values =
              {YearlyOf(k)[j].v["year"].v : j \in 1..Len(YearlyOf(k))}
         /\ \A label \in DOMAIN Data.line_items[k].values :
              SameValue(Data.line_items[k].values[label],
                        LastValueFor(YearlyOf(k), label))

\* a line item with two entries for one year, the first a number, the last null,
\* has been transformed
C8_Witness ==
  /\ ExtractedOk /\ IsJsonReply /\ ResponseSchema(Raw)
  /\ Len(RawItemsOf) = 2
  /\ RawItemsOf[1].v["name"] # RawItemsOf[2].v["name"]
  /\ \E k \in 1..2 :
       /\ Len(YearlyOf(k)) = 2
       /\ YearlyOf(k)[1].v["year"] = YearlyOf(k)[2].v["year"]
       /\ YearlyOf(k)[1].v["value"].t = "number"
       /\ YearlyOf(k)[2].v["value"].t = "null"

\* The records of a CSV text, read with the standard quoting rules: a field that
\* starts with a double quote ends at the next single double quote, two double
\* quotes inside it stand for one; a comma ends a field, a newline a record.

RECURSIVE FieldFrom(_, _, _, _)
\* the field that starts at position i, where the text goes on and what ended it
FieldFrom(text, i, quoted, field) ==
  IF i > Len(text) THEN [field |-> field, next |-> i, sep |-> "end"]
  ELSE IF quoted
  THEN IF text[i] # QUOTE
       THEN FieldFrom(text, i + 1, TRUE, Append(field, text[i]))
       ELSE IF i < Len(text) /\ text[i + 1] = QUOTE
       THEN FieldFrom(text, i + 2, TRUE, Append(field, QUOTE))
       ELSE FieldFrom(text, i + 1, FALSE, field)
  ELSE IF text[i] = QUOTE /\ field = <<>>
  THEN FieldFrom(text, i + 1, TRUE, field)
  ELSE IF text[i] = COMMA
  THEN [field |-> field, next |-> i + 1, sep |-> "comma"]
  ELSE IF text[i] = NEWLINE
  THEN [field |-> field, next |-> i + 1, sep |-> "newline"]
  ELSE FieldFrom(text, i + 1, FALSE, Append(field, text[i]))

RECURSIVE RecordFrom(_, _, _)
RecordFrom(text, i, record) ==
  LET f == FieldFrom(text, i, FALSE, <<>>)
  IN IF f.sep = "comma"
     THEN RecordFrom(text, f.next, Append(record, f.field))
     ELSE [record |-> Append(record, f.field), next |-> f.next, sep |-> f.sep]

RECURSIVE RecordsFrom(_, _, _)
RecordsFrom(text, i, records) ==
  LET r == RecordFrom(text, i, <<>>)
  IN IF r.sep = "newline"
     THEN RecordsFrom(text, r.next, Append(records, r.record))
     ELSE Append(records, r.record)

ParseCSV(text) == IF text = <<>> THEN <<>> ELSE RecordsFrom(text, 1, <<>>)

ExportedWide == exported # <<>> /\ exported[1].kind = "wide"
ExportedLong == exported # <<>> /\ exported[1].kind = "long"
Csv == exported[1].csv

\* the year labels that occur as keys of some line item's values
ValueYears == UNION {DOMAIN Data.line_items[k].values : k \in 1..Len(Data.line_items)}

\* C9: each year label present in some line item's values is a column of
\* convertToWideCSV's result and a Period of convertToLongCSV's result.
C9_NoPeriodDiscarded ==
  /\ (ExportedWide /\ ResponseSchema(Raw)) =>
       /\ Csv.ok
       /\ \A label \in ValueYears :
            Csv.val # <<>> /\ \E c \in 3..Len(ParseCSV(Csv.val)[1]) :
                                 ParseCSV(Csv.val)[1][c] = label
  /\ (ExportedLong /\ ResponseSchema(Raw)) =>
       /\ Csv.ok
       /\ \A label \in ValueYears :
            \E r \in 2..Len(ParseCSV(Csv.val)) : ParseCSV(Csv.val)[r][4] = label

\* the text of the cell for a line item and a year: empty for null and for a
\* missing key, the digits of the number otherwise
ExpectedCell(item, label) ==
  IF label \in DOMAIN item.values /\ item.values[label].t = "number"
  THEN NumberToString(item.values[label].v)
  ELSE <<>>

\* C10: for a FinancialData with n >= 1 line items and k years, convertToWideCSV
\* returns one header record followed by exactly n records in line-item order,
\* each of k+2 fields: original name, standardized name, then one value per year
\* in data.years order; with no line items it returns the empty string.
C10_WideShape ==
  (ExportedWide /\ ResponseSchema(Raw)) =>
    /\ Csv.ok
    /\ LET n == Len(Data.line_items)
           years == Data.years.v
           k == Len(years)
           records == ParseCSV(Csv.val)
       IN IF n = 0 THEN Csv.val = <<>>
          ELSE /\ Len(records) = n + 1
               /\ \A r \in 1..(n + 1) : Len(records[r]) = k + 2
               /\ records[1][1] = <<"Line Item (Original)">>
               /\ records[1][2] = <<"Standardized Name">>
               /\ \A y \in 1..k : records[1][y + 2] = years[y].v
               /\ \A r \in 1..n :
                    /\ records[r + 1][1] = Data.line_items[r].name.v
                    /\ records[r + 1][2] = Data.line_items[r].standardized_name.v
                    /\ \A y \in 1..k :
                         records[r + 1][y + 2] =
                           ExpectedCell(Data.line_items[r], years[y].v)

\* two line items, one with a comma, quotes and a newline in its name, and two
\* years, one with a comma in its label, have been exported
C10_Witness ==
  /\ ExportedWide /\ ResponseSchema(Raw) /\ Csv.ok
  /\ Len(Data.line_items) = 2
  /\ Len(Data.years.v) = 2
  /\ Data.years.v[1] # Data.years.v[2]
  /\ \E r \in 1..2 : NeedsQuoting(Data.line_items[r].name.v)
  /\ \E r \in 1..2 : \E label \in DOMAIN Data.line_items[r].values :
       Data.line_items[r].values[label].t = "number"
  /\ Len(ParseCSV(Csv.val)) = 3

\* C17: extractFinancialData fails with the empty-response message when the
\* response text is empty, and with the unrecognizable-structure message when the
\* text is not parsable JSON or its transformation throws; a failing call returns no
\* FinancialData, and a successful call returns the transformed parse of the text.
C17_ExtractionFailures ==
  (Extracted /\ ~response.rejected) =>
    /\ response.text.kind = "empty" =>
         ~extracted[1].ok /\ extracted[1].err = EmptyResponseMsg
    /\ response.text.kind = "garbage" =>
         ~extracted[1].ok /\ extracted[1].err = UnrecognizableMsg
    /\ response.text.kind = "json" =>
         IF transformRawApiResponse(Raw).ok
         THEN extracted[1].ok /\ extracted[1].val = transformRawApiResponse(Raw).val
         ELSE ~extracted[1].ok /\ extracted[1].err = UnrecognizableMsg
    /\ ~extracted[1].ok => extracted[1].val = Undefined

\* the extraction of a JSON response whose line_items is not an array has failed
C17_Witness ==
  /\ Extracted /\ IsJsonReply
  /\ Raw.t = "object" /\ "line_items" \in DOMAIN Raw.v /\ Raw.v["line_items"].t = "string"
  /\ extracted[1] = Throw(UnrecognizableMsg)

----------------------------------------------------------------------------
(* Properties of the export handlers *)

LongList == DataOf(results)

\* the (dataset, line item, year) triples of the exported list, by position
Triples ==
  UNION {{<<d, k, y>> : k \in 1..Len(LongList[d].line_items),
                        y \in 1..Len(LongList[d].years.v)} : d \in 1..Len(LongList)}

\* dataset, then line-item, then year order
Before(s, t) ==
  \/ s[1] < t[1]
  \/ s[1] = t[1] /\ s[2] < t[2]
  \/ s[1] = t[1] /\ s[2] = t[2] /\ s[3] < t[3]

Rank(t) == 1 + Cardinality({s \in Triples : Before(s, t)})

\* the five fields of the record of a triple
LongRecord(t) ==
  LET data == LongList[t[1]]
      item == data.line_items[t[2]]
      label == data.years.v[t[3]].v
  IN <<data.company_name.v, item.name.v, item.standardized_name.v, label,
       ExpectedCell(item, label)>>

LongHeaderRecord ==
  <<<<"Source / Company">>, <<"Line Item (Original)">>, <<"Standardized Name">>,
    <<"Period">>, <<"Value">>>>

\* C11: for a non-empty list of datasets convertToLongCSV returns one header record
\* followed by exactly one record per (dataset, line item, year) triple, in dataset,
\* then line-item, then year order, each of 5 fields: company, original name,
\* standardized name, period, value; for an empty list it returns the empty string.
C11_LongShape ==
  /\ convertToLongCSV(<<>>) = Ok(<<>>)
  /\ ExportedLong =>
       /\ Csv.ok
       /\ LET records == ParseCSV(Csv.val)
          IN /\ Len(records) = 1 + Cardinality(Triples)
             /\ \A r \in 1..Len(records) : Len(records[r]) = 5
             /\ records[1] = LongHeaderRecord
             /\ \A t \in Triples : records[1 + Rank(t)] = LongRecord(t)

\* two datasets of different companies have been exported together, the first with
\* two line items and two years, the second with at least one record
C11_Witness ==
  /\ ExportedLong /\ Csv.ok
  /\ Len(LongList) = 2
  /\ LongList[1].company_name # LongList[2].company_name
  /\ Len(LongList[1].line_items) = 2 /\ Len(LongList[1].years.v) = 2
  /\ LongList[1].line_items[1] # LongList[1].line_items[2]
  /\ LongList[1].years.v[1] # LongList[1].years.v[2]
  /\ \E t \in Triples : t[1] = 2
  /\ Len(ParseCSV(Csv.val)) >= 6

\* the value of a line item for a year label is null or absent
Missing(item, label) ==
  label \notin DOMAIN item.values \/ item.values[label].t \in {"null", "undefined"}

\* C12: in both exports a value that is null or absent for a (line item, year) pair
\* is written as an empty cell, and the cell (wide) or row (long) of that pair is
\* still emitted: it is neither dropped nor replaced by 0 or another value.
C12_MissingValueBlank ==
  (exported # <<>> /\ ResponseSchema(Raw)) =>
    /\ Csv.ok
    /\ LET n == Len(Data.line_items)
           years == Data.years.v
           k == Len(years)
           records == ParseCSV(Csv.val)
       IN \A r \in 1..n : \A y \in 1..k :
            Missing(Data.line_items[r], years[y].v) =>
              IF ExportedWide
              THEN /\ Len(records) = n + 1
                   /\ Len(records[r + 1]) = k + 2
                   /\ records[r + 1][1] = Data.line_items[r].name.v
                   /\ records[r + 1][y + 2] = <<>>
              ELSE /\ Len(records) = 1 + n * k
                   /\ records[1 + (r - 1) * k + y] =
                        <<Data.company_name.v, Data.line_items[r].name.v,
                          Data.line_items[r].standardized_name.v, years[y].v, <<>>>>

\* a dataset in which one listed year is null for a line item and another listed
\* year is absent from a line item's values has been exported in long form
C12_Witness ==
  /\ ExportedLong /\ ResponseSchema(Raw) /\ Csv.ok
  /\ \E r \in 1..Len(Data.line_items) : \E y \in 1..Len(Data.years.v) :
       /\ Data.years.v[y].v \in DOMAIN Data.line_items[r].values
       /\ Data.line_items[r].values[Data.years.v[y].v].t = "null"
  /\ \E r \in 1..Len(Data.line_items) : \E y \in 1..Len(Data.years.v) :
       Data.years.v[y].v \notin DOMAIN Data.line_items[r].values
  /\ \E r \in 1..Len(Data.line_items) : \E y \in 1..Len(Data.years.v) :
       ~Missing(Data.line_items[r], Data.years.v[y].v)

\* the cells convertToWideCSV is to write for a dataset, as strings
WideCells(data) ==
  <<<<<<"Line Item (Original)">>, <<"Standardized Name">>>>
      \o [y \in 1..Len(data.years.v) |-> data.years.v[y].v]>>
    \o [r \in 1..Len(data.line_items) |->
         <<data.line_items[r].name.v, data.line_items[r].standardized_name.v>>
           \o [y \in 1..Len(data.years.v) |->
                ExpectedCell(data.line_items[r], data.years.v[y].v)]]

\* the cells convertToLongCSV is to write for the list of datasets, as strings
LongCells ==
  <<LongHeaderRecord>>
    \o [r \in 1..Cardinality(Triples) |-> LongRecord(CHOOSE t \in Triples : Rank(t) = r)]

OriginalCells ==
  IF ExportedWide THEN WideCells(results[exported[1].of].data) ELSE LongCells

Special(cell) == \E i \in 1..Len(cell) : cell[i] \in {COMMA, QUOTE, NEWLINE}

\* a cell as it is to appear in the output
Written(cell) ==
  IF Special(cell)
  THEN <<QUOTE>>
         \o Join([i \in 1..Len(cell) |->
                   IF cell[i] = QUOTE THEN <<QUOTE, QUOTE>> ELSE <<cell[i]>>], <<>>)
         \o <<QUOTE>>
  ELSE cell

\* C18: in the output of both serializers a cell containing a comma, a double quote
\* or a newline is wrapped in double quotes with every inner double quote doubled,
\* every other cell is written verbatim, and reading the output with the standard
\* quoting rules gives back exactly the original cells, every record having the same
\* number of fields.
C18_RoundTrip ==
  (exported # <<>> /\ (ExportedWide => results[exported[1].of].data.line_items # <<>>)) =>
    /\ Csv.ok
    /\ Csv.val =
         Join([r \in 1..Len(OriginalCells) |->
                Join([c \in 1..Len(OriginalCells[r]) |-> Written(OriginalCells[r][c])],
                     <<COMMA>>)],
              <<NEWLINE>>)
    /\ ParseCSV(Csv.val) = OriginalCells
    /\ \A r \in 1..Len(ParseCSV(Csv.val)) :
         Len(ParseCSV(Csv.val)[r]) = Len(ParseCSV(Csv.val)[1])

\* a dataset with a name made of a quoted word, a standardized name with a newline
\* and a year label with a comma has been exported in wide form
C18_Witness ==
  /\ ExportedWide /\ Csv.ok
  /\ LET data == results[exported[1].of].data
     IN /\ \E r \in 1..Len(data.line_items) :
             /\ data.line_items[r].name.v = <<QUOTE, "Other", QUOTE>>
             /\ Includes(data.line_items[r].standardized_name.v, <<NEWLINE>>)
        /\ \E y \in 1..Len(data.years.v) : Includes(data.years.v[y].v, <<COMMA>>)
  /\ Includes(Csv.val, <<QUOTE, QUOTE, QUOTE, "Other", QUOTE, QUOTE, QUOTE>>)

====
